---- MODULE Spec2Model ----
(***************************************************************************)
(* Model of GithubIssuesLabelSync (src/lib/LabelSync.js) and of its        *)
(* predecessor GithubSync (src/unnamed/part_000): a client that lists,     *)
(* deletes and creates issue labels of one remote repository through       *)
(* bluebird promise chains.                                                *)
(*                                                                         *)
(* One synchronizer instance is modelled.  Its callers start operations    *)
(* (the Call* actions); the remote answers every issued call at some later *)
(* moment with any outcome (the *Returns actions, which also run the       *)
(* .then/.catch handler of the chain); the .lastly handler of a per-label  *)
(* chain runs as a step of its own (the Lastly* actions) and settles the   *)
(* per-label promise, which is when the bulk combinator and the import     *)
(* workflow move on.                                                       *)
(***************************************************************************)
EXTENDS Integers, Sequences, FiniteSets, TLC

\* ------------------------------------------------------------------ bounds
\* Number of operations the callers start on the instance.
MaxCalls == 2
\* Number of per-label remote calls (deletes and creates) the operations
\* started on the instance may issue altogether.
MaxOps == 2

\* ------------------------------------------------------------ the universe
\* Label names, in the order the remote lists them.
NameSeq == <<"bug", "feature">>
Names == {NameSeq[k] : k \in 1..Len(NameSeq)}

\* The labels the repository holds when the synchronizer is constructed.
InitialRemote == {"bug"}

\* A label object is <<origin, name>>: origin 0 is an object of the caller,
\* origin i > 0 an object of the response to the list call of invocation i.
CallerLabels == {<<0, n>> : n \in Names}
LabelObjects == (0..MaxCalls) \X Names
NameOf(label) == label[2]

\* Lists of caller labels (the same object may recur in a list).
LabelLists == UNION {[1..n -> CallerLabels] : n \in 0..MaxOps}

\* Label.status; "unset" is a label no operation has completed on.
Statuses == {"unset", "success", "duplicate", "error"}

VARIABLES
    remote,         \* names of the labels the remote repository holds
    authCount,      \* calls of the remote client's authenticate
    labels,         \* this._labels: the last fetched snapshot
    deletedLabels,  \* this._deletedLabels
    createdLabels,  \* this._createdLabels
    status,         \* status[label]: the status field of each label object
    ncalls,         \* operations started so far
    queue,          \* the promise library's queue: the chain whose .lastly is due
                    \* and the outcome of its remote call
    invs,           \* invs[i]: the i-th operation, while its caller holds it
    issued          \* remote calls issued so far, per endpoint

vars == <<remote, authCount, labels, deletedLabels, createdLabels, status,
          ncalls, queue, invs, issued>>

\* ------------------------------------------------- values of the promises
Value(kind, errors) == [kind |-> kind, errors |-> errors]
NoValue == Value("none", <<>>)
\* the remote's response body
Response == Value("response", <<>>)
\* error.message of a failed delete
ErrorMessage == Value("message", <<>>)
\* the object JSON.parse made of a create error
ErrorObject(errors) == Value("errorObject", errors)
\* an exception thrown inside a handler
Thrown == Value("thrown", <<>>)

\* --------------------------------------------- payloads of a failed create
\* json: the text parses; hasErrors: the parsed object has an errors array;
\* errors: the code of each entry of that array.
Payload(json, hasErrors, errors) ==
    [json |-> json, hasErrors |-> hasErrors, errors |-> errors]
CreatePayloads ==
    { Payload(TRUE, TRUE, <<"already_exists">>),
      Payload(TRUE, TRUE, <<"invalid", "already_exists">>),
      Payload(TRUE, TRUE, <<>>),
      Payload(TRUE, FALSE, <<>>),
      Payload(FALSE, FALSE, <<>>) }

\* An outcome of a remote call: ok, or a failure carrying a payload.
Outcome(ok, payload) == [ok |-> ok, payload |-> payload]
Ok == Outcome(TRUE, Payload(TRUE, FALSE, <<>>))
CreateOutcomes == {Ok} \cup {Outcome(FALSE, p) : p \in CreatePayloads}
\* A failed delete or list rejects with an Error object (it has a message).
Failed == Outcome(FALSE, Payload(FALSE, FALSE, <<>>))
DeleteOutcomes == {Ok, Failed}
ListOutcomes == {Ok, Failed}

\* ------------------------------------------------------ per-label chains
\* One per-label promise chain: the remote call is in "flight", then its
\* .then/.catch handler has run ("handled"), then .lastly has run ("done")
\* and the promise createLabel/deleteLabel returned is settled as res/val.
Op(label) == [label |-> label, st |-> "flight", res |-> "none", val |-> NoValue]

\* What a .then/.catch handler leaves: the label's status and the chain's
\* settlement so far.
Handled(st, res, val) == [status |-> st, res |-> res, val |-> val]

\* A variant of createLabel's handlers that reads the code of the last error
\* of the payload instead of the first.
createLabelHandlerLastCode(old, out) ==
    IF out.ok THEN Handled("success", "resolved", Response)
    ELSE IF ~out.payload.json
        THEN Handled(old, "rejected", Thrown)
    ELSE IF ~out.payload.hasErrors \/ out.payload.errors = <<>>
        THEN Handled(old, "rejected", Thrown)
    ELSE IF out.payload.errors[Len(out.payload.errors)] = "already_exists"
        THEN Handled("duplicate", "resolved", ErrorObject(out.payload.errors))
    ELSE Handled("error", "resolved", ErrorObject(out.payload.errors))

\* createLabel's handlers.  On a failure the payload is parsed and the code
\* of its first error read: either of them may throw, which rejects the
\* chain and leaves the status as it was.
createLabelHandler(old, out) ==
    IF out.ok THEN Handled("success", "resolved", Response)
    ELSE IF ~out.payload.json
        THEN Handled(old, "rejected", Thrown)
    ELSE IF ~out.payload.hasErrors \/ out.payload.errors = <<>>
        THEN Handled(old, "rejected", Thrown)
    ELSE IF out.payload.errors[1] = "already_exists"
        THEN Handled("duplicate", "resolved", ErrorObject(out.payload.errors))
    ELSE Handled("error", "resolved", ErrorObject(out.payload.errors))

\* A variant of deleteLabel's handlers whose .catch does not mark the label.
deleteLabelHandlerUnmarked(old, out) ==
    IF out.ok THEN Handled("success", "resolved", Response)
    ELSE Handled(old, "resolved", ErrorMessage)

\* deleteLabel's handlers.
deleteLabelHandler(old, out) ==
    IF out.ok THEN Handled("success", "resolved", Response)
    ELSE Handled("error", "resolved", ErrorMessage)

\* A variant of .lastly that behaves like .then: the chain is settled with
\* what the callback returns.
lastlyReturns(op) == [op EXCEPT !.st = "done", !.res = "resolved",
                                !.val = Value("label", <<>>)]

\* .lastly passes the chain's settlement through: the value its callback
\* returns (deleteLabel's returns the label) is dropped.
lastly(op) == [op EXCEPT !.st = "done"]

\* Variants of the setters: one that keeps a label once in the list, one
\* that assigns the list instead of pushing to it.
deletedLabelOnce(list, label) ==
    IF \E k \in 1..Len(list) : list[k] = label THEN list ELSE Append(list, label)
createdLabelAssigned(list, label) == <<label>>

\* The setters that push to the audit lists.
\* A variant of the setter that puts the label in front.
deletedLabelFront(list, label) == <<label>> \o list

deletedLabel(list, label) == Append(list, label)
createdLabel(list, label) == Append(list, label)

\* ---------------------------------------------------- the bulk combinator
\* Promise.all(labels).map(f): f is called on every entry in one tick ...
\* A variant of the map that leaves out the last entry.
MapIssueButLast(list) == [k \in 1..(Len(list) - 1) |-> Op(list[k])]

MapIssue(list) == [k \in 1..Len(list) |-> Op(list[k])]
\* ... the result rejects as soon as one of the promises f returned rejects ...
MapRejected(ops) == \E k \in 1..Len(ops) : ops[k].st = "done" /\ ops[k].res = "rejected"
\* A variant that resolves with the first promise to resolve.
MapResolvedAny(ops) ==
    ops = <<>> \/ \E k \in 1..Len(ops) : ops[k].st = "done" /\ ops[k].res = "resolved"
\* ... and resolves when all of them are resolved.
MapResolved(ops) == \A k \in 1..Len(ops) : ops[k].st = "done" /\ ops[k].res = "resolved"

\* ---------------------------------------------------------- invocations
\* One started operation.  pc: "list" while its list call is in flight,
\* "delete"/"create" while it waits for its delete/create chains, and
\* "resolved"/"rejected" once the promise the operation returned settled.
\* dops/cops are the delete/create chains it started; base records the
\* lengths of the audit lists when it was called; listed is how its list
\* call ended ("none" before that, and for operations without one).
Inv(op, args, purge, meta, pc, dops, cops) ==
    [op |-> op, args |-> args, purge |-> purge, meta |-> meta, pc |-> pc,
     dops |-> dops, cops |-> cops, listed |-> "none",
     base |-> [deleted |-> Len(deletedLabels), created |-> Len(createdLabels)]]

Settled(inv) == inv.pc \in {"resolved", "rejected"}

AllDone(ops) == \A k \in 1..Len(ops) : ops[k].st = "done"

\* Nothing of the operation is left to happen.
Completed(inv) == Settled(inv) /\ AllDone(inv.dops) /\ AllDone(inv.cops)

\* A variant of the test that never purges.
importPurgesNever(purge) == FALSE

\* A variant in which the purge promise is not chained to the creates.
purgeUnchained(inv) == FALSE

\* A variant of the test that purges whatever the flag.
importPurgesAlways(purge) == TRUE

\* importLabels: true === purge
importPurges(purge) == purge = TRUE

\* The state of an invocation once its create chains were issued.
startCreate(inv) ==
    LET ops == MapIssue(inv.args)
    IN  [inv EXCEPT !.cops = ops,
                    !.pc = IF MapResolved(ops) THEN "resolved" ELSE "create"]

\* A variant in which the callback does not wait for the purge promise.
purgeStarted(inv) == inv.pc = "delete"

\* importLabels' .then callback runs once the purge promise has resolved.
purgeResolved(inv) == inv.pc = "delete" /\ MapResolved(inv.dops)

\* Where an invocation stands after one of its chains moved.
advance(inv) ==
    IF inv.pc = "delete" THEN
        IF inv.op = "importLabels" /\ purgeResolved(inv) THEN startCreate(inv)
        ELSE IF MapRejected(inv.dops) THEN [inv EXCEPT !.pc = "rejected"]
        ELSE IF MapResolved(inv.dops) THEN [inv EXCEPT !.pc = "resolved"]
        ELSE inv
    ELSE IF inv.pc = "create" THEN
        IF MapRejected(inv.cops) THEN [inv EXCEPT !.pc = "rejected"]
        ELSE IF MapResolved(inv.cops) THEN [inv EXCEPT !.pc = "resolved"]
        ELSE inv
    ELSE inv

\* A variant that adds the response to the snapshot it already holds.
getLabelsStoreMerged(i, meta) ==
    [items |-> labels.items \o
               [k \in 1..Len(SelectSeq(NameSeq, LAMBDA n : n \in remote))
                  |-> <<i, SelectSeq(NameSeq, LAMBDA n : n \in remote)[k]>>],
     meta |-> (meta = TRUE)]

\* A variant whose items are objects the callers hold already.
getLabelsStoreShared(i, meta) ==
    [items |-> [k \in 1..Len(SelectSeq(NameSeq, LAMBDA n : n \in remote))
                  |-> <<0, SelectSeq(NameSeq, LAMBDA n : n \in remote)[k]>>],
     meta |-> (meta = TRUE)]

\* getLabels' .then callback: the response without its meta key unless meta
\* was asked for.  The response lists the remote's labels as new objects.
getLabelsStore(i, meta) ==
    [items |-> [k \in 1..Len(SelectSeq(NameSeq, LAMBDA n : n \in remote))
                  |-> <<i, SelectSeq(NameSeq, LAMBDA n : n \in remote)[k]>>],
     meta |-> (meta = TRUE)]

\* A variant with a .catch that turns a failed list call into a result.
getLabelsSwallows(out) == "resolved"

\* getLabels has a .then and no .catch: its promise settles as the list call
\* did.
getLabelsSettles(out) == IF out.ok THEN "resolved" ELSE "rejected"

\* The reactions to one response (.then/.catch, then .lastly and what hangs
\* on the settled promise) run to completion on the promise library's queue
\* before the next response or the next call of a caller is handled.
Reaction(i, kind, k, out) == [i |-> i, kind |-> kind, k |-> k, out |-> out]
NoReaction == Reaction(0, "none", 0, Ok)
Reacting == queue # NoReaction

\* ------------------------------------------------------------------ Init
\* A variant of authenticate that authenticates the client twice.
authenticateTwice(n) == n + 2

\* authenticate(): one call of the remote client's authenticate.
authenticate(n) == n + 1

\* The state the constructor leaves: empty lists, authenticated once.
Init ==
    /\ remote = InitialRemote
    /\ authCount = authenticate(0)
    /\ labels = [items |-> <<>>, meta |-> FALSE]
    /\ deletedLabels = <<>>
    /\ createdLabels = <<>>
    /\ status = [l \in LabelObjects |-> "unset"]
    /\ ncalls = 0
    /\ queue = NoReaction
    /\ invs = <<>>
    /\ issued = [list |-> 0, delete |-> 0, create |-> 0]

\* ------------------------------------------------------------ the calls
\* Names a create chain in flight may still add to the remote.
Arriving ==
    UNION {{NameOf(invs[i].cops[k].label) :
               k \in {j \in 1..Len(invs[i].cops) : invs[i].cops[j].st = "flight"}} :
           i \in DOMAIN invs}

\* The most per-label calls an operation issues: one per label passed, and
\* for a purge one per label the remote may hold when it is listed.
Budget(op, list, purge) ==
    (IF op \in {"purgeLabels", "importLabels"} /\ purge
     THEN Cardinality(remote \cup Arriving) ELSE 0) + Len(list)

\* Callers start one operation at a time: the next one once the promise of
\* the previous one has settled.
CanCall(op, list, purge) ==
    /\ ncalls < MaxCalls
    /\ ~Reacting
    /\ \A i \in DOMAIN invs : Settled(invs[i])
    /\ issued.delete + issued.create + Budget(op, list, purge) <= MaxOps

\* Starting invocation inv: its remote calls are issued.  The caller lets go
\* of the operations of which nothing is left to happen.
Start(inv) ==
    /\ ncalls' = ncalls + 1
    /\ invs' = [i \in {j \in DOMAIN invs : ~Completed(invs[j])} \cup {ncalls + 1}
                  |-> IF i = ncalls + 1 THEN inv ELSE invs[i]]
    /\ issued' = [list |-> issued.list + (IF inv.pc = "list" THEN 1 ELSE 0),
                  delete |-> issued.delete + Len(inv.dops),
                  create |-> issued.create + Len(inv.cops)]
    /\ UNCHANGED <<remote, authCount, labels, deletedLabels, createdLabels,
                   status, queue>>

CallGetLabels(meta) ==
    /\ CanCall("getLabels", <<>>, FALSE)
    /\ Start(Inv("getLabels", <<>>, FALSE, meta, "list", <<>>, <<>>))

CallDeleteLabel(label) ==
    /\ CanCall("deleteLabel", <<label>>, FALSE)
    /\ Start(Inv("deleteLabel", <<label>>, FALSE, FALSE, "delete",
                 <<Op(label)>>, <<>>))

CallDeleteLabels(list) ==
    /\ CanCall("deleteLabels", list, FALSE)
    /\ Start(advance(Inv("deleteLabels", list, FALSE, FALSE, "delete",
                         MapIssue(list), <<>>)))

CallCreateLabel(label) ==
    /\ CanCall("createLabel", <<label>>, FALSE)
    /\ Start(Inv("createLabel", <<label>>, FALSE, FALSE, "create",
                 <<>>, <<Op(label)>>))

CallCreateLabels(list) ==
    /\ CanCall("createLabels", list, FALSE)
    /\ Start(startCreate(Inv("createLabels", list, FALSE, FALSE, "create",
                             <<>>, <<>>)))

CallPurgeLabels ==
    /\ CanCall("purgeLabels", <<>>, TRUE)
    /\ Start(Inv("purgeLabels", <<>>, TRUE, FALSE, "list", <<>>, <<>>))

CallImportLabels(list, purge) ==
    /\ CanCall("importLabels", list, importPurges(purge))
    /\ Start(IF importPurges(purge)
             THEN Inv("importLabels", list, purge, FALSE, "list", <<>>, <<>>)
             ELSE startCreate(Inv("importLabels", list, purge, FALSE, "create",
                                  <<>>, <<>>)))

\* --------------------------------------------------- the remote's answers
\* Invocation i becomes inv; the remote calls inv started on the way are issued.
Update(i, inv) ==
    /\ invs' = [invs EXCEPT ![i] = inv]
    /\ issued' = [issued EXCEPT
                    !.delete = @ + Len(inv.dops) - Len(invs[i].dops),
                    !.create = @ + Len(inv.cops) - Len(invs[i].cops)]
    /\ UNCHANGED ncalls

\* The list call of invocation i returns.  A failure rejects getLabels, and
\* with it purgeLabels and importLabels, whose callbacks are not run.  On
\* success the snapshot is stored; purgeLabels then maps deleteLabel over it.
ListReturns(i, out) ==
    /\ i \in DOMAIN invs
    /\ invs[i].pc = "list"
    /\ ~Reacting
    /\ labels' = IF out.ok THEN getLabelsStore(i, invs[i].meta) ELSE labels
    /\ LET inv == [invs[i] EXCEPT !.listed = IF out.ok THEN "ok" ELSE "failed"]
       IN  IF getLabelsSettles(out) = "rejected"
           THEN Update(i, [inv EXCEPT !.pc = "rejected"])
           ELSE IF inv.op = "getLabels"
           THEN Update(i, [inv EXCEPT !.pc = "resolved"])
           ELSE Update(i, advance([inv EXCEPT
                                     !.dops = MapIssue(labels'.items),
                                     !.pc = "delete"]))
    /\ UNCHANGED <<remote, authCount, deletedLabels, createdLabels, status,
                   queue>>

\* The k-th delete call of invocation i returns and its handler runs.
DeleteReturns(i, k, out) ==
    /\ i \in DOMAIN invs
    /\ k \in 1..Len(invs[i].dops)
    /\ invs[i].dops[k].st = "flight"
    /\ ~Reacting
    /\ queue' = Reaction(i, "delete", k, out)
    /\ LET label == invs[i].dops[k].label
           h == deleteLabelHandler(status[label], out)
       IN  /\ status' = [status EXCEPT ![label] = h.status]
           /\ invs' = [invs EXCEPT ![i].dops[k] =
                         [@ EXCEPT !.st = "handled", !.res = h.res, !.val = h.val]]
           /\ remote' = IF out.ok THEN remote \ {NameOf(label)} ELSE remote
    /\ UNCHANGED <<authCount, labels, deletedLabels, createdLabels, ncalls,
                   issued>>

\* The k-th create call of invocation i returns and its handler runs.
CreateReturns(i, k, out) ==
    /\ i \in DOMAIN invs
    /\ k \in 1..Len(invs[i].cops)
    /\ invs[i].cops[k].st = "flight"
    /\ ~Reacting
    /\ queue' = Reaction(i, "create", k, out)
    /\ LET label == invs[i].cops[k].label
           h == createLabelHandler(status[label], out)
       IN  /\ status' = [status EXCEPT ![label] = h.status]
           /\ invs' = [invs EXCEPT ![i].cops[k] =
                         [@ EXCEPT !.st = "handled", !.res = h.res, !.val = h.val]]
           /\ remote' = IF out.ok THEN remote \cup {NameOf(label)} ELSE remote
    /\ UNCHANGED <<authCount, labels, deletedLabels, createdLabels, ncalls,
                   issued>>

\* ------------------------------------------------------------- .lastly
\* deleteLabel's .lastly callback: the label is logged, the promise settles.
LastlyDelete(i, k) ==
    /\ queue.kind = "delete"
    /\ queue.i = i
    /\ queue.k = k
    /\ queue' = NoReaction
    /\ deletedLabels' = deletedLabel(deletedLabels, invs[i].dops[k].label)
    /\ Update(i, advance([invs[i] EXCEPT !.dops[k] = lastly(@)]))
    /\ UNCHANGED <<remote, authCount, labels, createdLabels, status>>

\* createLabel's .lastly callback.
LastlyCreate(i, k) ==
    /\ queue.kind = "create"
    /\ queue.i = i
    /\ queue.k = k
    /\ queue' = NoReaction
    /\ createdLabels' = createdLabel(createdLabels, invs[i].cops[k].label)
    /\ Update(i, advance([invs[i] EXCEPT !.cops[k] = lastly(@)]))
    /\ UNCHANGED <<remote, authCount, labels, deletedLabels, status>>

\* ------------------------------------------------------------------ Next
Next ==
    \/ \E meta \in BOOLEAN : CallGetLabels(meta)
    \/ \E label \in CallerLabels : CallDeleteLabel(label)
    \/ \E list \in LabelLists : CallDeleteLabels(list)
    \/ \E label \in CallerLabels : CallCreateLabel(label)
    \/ \E list \in LabelLists : CallCreateLabels(list)
    \/ CallPurgeLabels
    \/ \E list \in LabelLists, purge \in BOOLEAN : CallImportLabels(list, purge)
    \/ \E i \in 1..MaxCalls, out \in ListOutcomes : ListReturns(i, out)
    \/ \E i \in 1..MaxCalls, k \in 1..MaxOps, out \in DeleteOutcomes :
          DeleteReturns(i, k, out)
    \/ \E i \in 1..MaxCalls, k \in 1..MaxOps, out \in CreateOutcomes :
          CreateReturns(i, k, out)
    \/ \E i \in 1..MaxCalls, k \in 1..MaxOps : LastlyDelete(i, k)
    \/ \E i \in 1..MaxCalls, k \in 1..MaxOps : LastlyCreate(i, k)

Spec == Init /\ [][Next]_vars

\* ------------------------------------------------------- fair scheduling
\* Every remote call that was issued is answered.
RemoteCompletes ==
    \/ \E i \in 1..MaxCalls, out \in ListOutcomes : ListReturns(i, out)
    \/ \E i \in 1..MaxCalls, k \in 1..MaxOps, out \in DeleteOutcomes :
          DeleteReturns(i, k, out)
    \/ \E i \in 1..MaxCalls, k \in 1..MaxOps, out \in CreateOutcomes :
          CreateReturns(i, k, out)

\* The promise library runs the callbacks it has queued.
QueueRuns ==
    \/ \E i \in 1..MaxCalls, k \in 1..MaxOps : LastlyDelete(i, k)
    \/ \E i \in 1..MaxCalls, k \in 1..MaxOps : LastlyCreate(i, k)

FairSpec == Init /\ [][Next]_vars /\ WF_vars(RemoteCompletes) /\ WF_vars(QueueRuns)

\* ------------------------------------------------------ a faithful remote
\* The remote as a label store without transient failures: a create adds
\* the name or fails with already_exists, a delete removes the name or
\* fails because it is not there, a list call returns what is held.
FaithfulCreate(name) ==
    IF name \in remote
    THEN Outcome(FALSE, Payload(TRUE, TRUE, <<"already_exists">>))
    ELSE Ok

FaithfulDelete(name) == IF name \in remote THEN Ok ELSE Failed

FaithfulDeleteReturns(i, k) ==
    /\ i \in DOMAIN invs
    /\ k \in 1..Len(invs[i].dops)
    /\ DeleteReturns(i, k, FaithfulDelete(NameOf(invs[i].dops[k].label)))

FaithfulCreateReturns(i, k) ==
    /\ i \in DOMAIN invs
    /\ k \in 1..Len(invs[i].cops)
    /\ CreateReturns(i, k, FaithfulCreate(NameOf(invs[i].cops[k].label)))

FaithfulNext ==
    \/ \E meta \in BOOLEAN : CallGetLabels(meta)
    \/ \E label \in CallerLabels : CallDeleteLabel(label)
    \/ \E list \in LabelLists : CallDeleteLabels(list)
    \/ \E label \in CallerLabels : CallCreateLabel(label)
    \/ \E list \in LabelLists : CallCreateLabels(list)
    \/ CallPurgeLabels
    \/ \E list \in LabelLists, purge \in BOOLEAN : CallImportLabels(list, purge)
    \/ \E i \in 1..MaxCalls : ListReturns(i, Ok)
    \/ \E i \in 1..MaxCalls, k \in 1..MaxOps : FaithfulDeleteReturns(i, k)
    \/ \E i \in 1..MaxCalls, k \in 1..MaxOps : FaithfulCreateReturns(i, k)
    \/ \E i \in 1..MaxCalls, k \in 1..MaxOps : LastlyDelete(i, k)
    \/ \E i \in 1..MaxCalls, k \in 1..MaxOps : LastlyCreate(i, k)

\* The constructor's state, over whatever the remote holds at that time.
FaithfulInit ==
    /\ remote \in SUBSET Names
    /\ authCount = authenticate(0)
    /\ labels = [items |-> <<>>, meta |-> FALSE]
    /\ deletedLabels = <<>>
    /\ createdLabels = <<>>
    /\ status = [l \in LabelObjects |-> "unset"]
    /\ ncalls = 0
    /\ queue = NoReaction
    /\ invs = <<>>
    /\ issued = [list |-> 0, delete |-> 0, create |-> 0]

FaithfulSpec == FaithfulInit /\ [][FaithfulNext]_vars

\* =================================================================== claims
\* The label of the chain whose .lastly is due.
QueueLabel ==
    IF queue.kind = "create" THEN invs[queue.i].cops[queue.k].label
    ELSE invs[queue.i].dops[queue.k].label

\* Invocation i is started or moved by the step.
Acts(i) == i \in DOMAIN invs' /\ (i \notin DOMAIN invs \/ invs'[i] # invs[i])

\* No per-label chain is in flight or has its .lastly due.
Quiescent ==
    \A i \in DOMAIN invs : AllDone(invs[i].dops) /\ AllDone(invs[i].cops)

\* The payload parses to an object with a non-empty errors array.
Structured(out) ==
    ~out.ok /\ out.payload.json /\ out.payload.hasErrors /\ out.payload.errors # <<>>

Range(seq) == {seq[k] : k \in 1..Len(seq)}

\* C1: within one importLabels(desired, purge=true) no create chain exists
\* until the list call has returned and every delete chain of the purge is
\* done; so no delete of the purge is pending while a create is.
C1_PurgeBeforeCreate ==
    \A i \in DOMAIN invs :
        (invs[i].op = "importLabels" /\ invs[i].purge /\ invs[i].cops # <<>>)
            => /\ invs[i].pc # "list"
               /\ AllDone(invs[i].dops)

\* An import that purged a non-empty snapshot and has a create in flight.
C1_Witness ==
    \E i \in DOMAIN invs :
        /\ invs[i].op = "importLabels" /\ invs[i].purge
        /\ invs[i].dops # <<>>
        /\ \E k \in 1..Len(invs[i].cops) : invs[i].cops[k].st = "flight"

\* C2: importLabels(desired, purge=false) issues no list and no delete call
\* and exactly one create call per entry of desired, and none of its steps
\* changes the labels snapshot or deletedLabels.
C2_ImportWithoutPurge ==
    /\ [](\A i \in DOMAIN invs :
            (invs[i].op = "importLabels" /\ ~invs[i].purge)
                => /\ invs[i].pc # "list"
                   /\ invs[i].dops = <<>>
                   /\ Len(invs[i].cops) = Len(invs[i].args)
                   /\ \A k \in 1..Len(invs[i].args) :
                          invs[i].cops[k].label = invs[i].args[k])
    /\ [][\A i \in 1..MaxCalls :
            (Acts(i) /\ invs'[i].op = "importLabels" /\ ~invs'[i].purge)
                => /\ labels' = labels
                   /\ deletedLabels' = deletedLabels
                   /\ issued'.list = issued.list
                   /\ issued'.delete = issued.delete
                   /\ issued'.create = issued.create +
                        (IF i \in DOMAIN invs THEN 0 ELSE Len(invs'[i].args))]_vars

\* An import without purge of a non-empty list that has resolved.
C2_Witness ==
    \E i \in DOMAIN invs :
        /\ invs[i].op = "importLabels" /\ ~invs[i].purge
        /\ invs[i].args # <<>>
        /\ invs[i].pc = "resolved"

\* C3 (as claimed): whatever the remote create call answers, the promise of
\* createLabel resolves, to the response or to the error object.
C3_CreateNeverRejects ==
    \A i \in DOMAIN invs : \A k \in 1..Len(invs[i].cops) :
        invs[i].cops[k].st = "done"
            => /\ invs[i].cops[k].res = "resolved"
               /\ invs[i].cops[k].val.kind \in {"response", "errorObject"}

\* C4: once createLabel's handler has run the status of the label is
\* "success" after a successful create, "duplicate" after a failure whose
\* first error code is already_exists and "error" after a failure with
\* another first code, whatever the status was; .lastly leaves it alone.
C4_CreateStatus ==
    /\ [](queue.kind = "create" =>
            /\ queue.out.ok => status[QueueLabel] = "success"
            /\ (Structured(queue.out) /\ queue.out.payload.errors[1] = "already_exists")
                   => status[QueueLabel] = "duplicate"
            /\ (Structured(queue.out) /\ queue.out.payload.errors[1] # "already_exists")
                   => status[QueueLabel] = "error")
    /\ [][queue.kind = "create" => status' = status]_vars

\* A label an earlier create completed on is created again and found a
\* duplicate.
C4_Witness ==
    /\ queue.kind = "create"
    /\ Structured(queue.out) /\ queue.out.payload.errors[1] = "already_exists"
    /\ QueueLabel \in Range(createdLabels)
    /\ status[QueueLabel] = "duplicate"

\* C5: once deleteLabel's handler has run the status of the label is
\* "success" if the remote delete succeeded and "error" if it failed, and
\* the label is appended to deletedLabels by .lastly in both cases, which is
\* the only step that changes deletedLabels.
C5_DeleteStatusAndLog ==
    /\ [](queue.kind = "delete" =>
            status[QueueLabel] = (IF queue.out.ok THEN "success" ELSE "error"))
    /\ [][/\ queue.kind = "delete"
             => /\ deletedLabels' = Append(deletedLabels, QueueLabel)
                /\ status' = status
          /\ queue.kind # "delete" => deletedLabels' = deletedLabels]_vars

\* A delete that failed, with its label marked and logged.
C5_Witness ==
    \E i \in DOMAIN invs : \E k \in 1..Len(invs[i].dops) :
        /\ invs[i].dops[k].st = "done"
        /\ invs[i].dops[k].val = ErrorMessage
        /\ status[invs[i].dops[k].label] = "error"
        /\ deletedLabels # <<>>
        /\ deletedLabels[Len(deletedLabels)] = invs[i].dops[k].label

\* C6: the promise of deleteLabel always resolves: to the response when the
\* remote delete succeeded and to the error's message when it failed; what
\* the .lastly callback returns does not replace that value.
C6_DeleteNeverRejects ==
    /\ [](\A i \in DOMAIN invs : \A k \in 1..Len(invs[i].dops) :
            invs[i].dops[k].st = "done"
                => /\ invs[i].dops[k].res = "resolved"
                   /\ invs[i].dops[k].val \in {Response, ErrorMessage})
    /\ [][queue.kind = "delete"
            => /\ invs'[queue.i].dops[queue.k].st = "done"
               /\ invs'[queue.i].dops[queue.k].res = "resolved"
               /\ invs'[queue.i].dops[queue.k].val =
                    (IF queue.out.ok THEN Response ELSE ErrorMessage)]_vars

\* A deleteLabel call that resolved to the message of the remote's error.
C6_Witness ==
    \E i \in DOMAIN invs :
        /\ invs[i].op = "deleteLabel"
        /\ invs[i].pc = "resolved"
        /\ invs[i].dops[1].res = "resolved"
        /\ invs[i].dops[1].val = ErrorMessage

\* C7: every createLabel chain appends its label to createdLabels exactly
\* once, when it completes, whatever the remote answered: the .lastly step
\* of a create chain appends the label, no other step changes createdLabels,
\* and no step of a create chain changes deletedLabels.
C7_CreateLogsOnce ==
    [][/\ queue.kind = "create"
          => /\ createdLabels' = Append(createdLabels, QueueLabel)
             /\ deletedLabels' = deletedLabels
       /\ queue.kind # "create" => createdLabels' = createdLabels
       /\ queue'.kind = "create" => deletedLabels' = deletedLabels]_vars

\* A create whose promise rejected, with its label logged all the same.
C7_Witness ==
    \E i \in DOMAIN invs : \E k \in 1..Len(invs[i].cops) :
        /\ invs[i].cops[k].st = "done"
        /\ invs[i].cops[k].res = "rejected"
        /\ invs[i].cops[k].label \in Range(createdLabels)

\* C8: whenever no per-label chain is in flight, createdLabels is as long as
\* the number of remote create calls issued since construction and
\* deletedLabels as long as the number of remote delete calls issued.
C8_AuditLengths ==
    Quiescent => /\ Len(createdLabels) = issued.create
                 /\ Len(deletedLabels) = issued.delete

\* A quiet state after deletes and creates, one of which did not succeed.
C8_Witness ==
    /\ Quiescent
    /\ deletedLabels # <<>>
    /\ \E k \in 1..Len(createdLabels) : status[createdLabels[k]] \in {"duplicate", "error"}

\* C9: deleteLabels(labels) starts one delete chain per entry, and when it
\* has resolved all of them are done and deletedLabels is longer by the
\* number of entries than it was at the call.
C9_DeleteLabelsBarrier ==
    \A i \in DOMAIN invs :
        invs[i].op = "deleteLabels"
            => /\ Len(invs[i].dops) = Len(invs[i].args)
               /\ \A k \in 1..Len(invs[i].args) :
                      invs[i].dops[k].label = invs[i].args[k]
               /\ invs[i].pc = "resolved"
                    => /\ AllDone(invs[i].dops)
                       /\ Len(deletedLabels) = invs[i].base.deleted + Len(invs[i].args)

\* A resolved deleteLabels of two labels, one deleted and one not.
C9_Witness ==
    \E i \in DOMAIN invs :
        /\ invs[i].op = "deleteLabels"
        /\ invs[i].pc = "resolved"
        /\ Len(invs[i].args) = 2
        /\ invs[i].dops[1].val # invs[i].dops[2].val

\* C10 (as claimed): the promise of createLabels, or of importLabels, never
\* settles while one of its create chains is still pending.
C10_CreateLabelsBarrier ==
    \A i \in DOMAIN invs :
        (invs[i].op \in {"createLabels", "importLabels"} /\ Settled(invs[i]))
            => AllDone(invs[i].cops)

\* C11: a failed list call rejects getLabels (the failure is not turned into
\* a result) and the step leaves the labels snapshot as it was.
C11_ListFailureRejects ==
    /\ [](\A i \in DOMAIN invs :
            (invs[i].op = "getLabels" /\ invs[i].listed = "failed")
                => invs[i].pc = "rejected")
    /\ [][\A i \in 1..MaxCalls :
            (/\ i \in DOMAIN invs /\ Acts(i)
             /\ invs[i].op = "getLabels"
             /\ invs'[i].listed = "failed")
                => /\ invs'[i].pc = "rejected"
                   /\ labels' = labels]_vars

\* A getLabels rejected by a failed list call while the snapshot of an
\* earlier call is still held.
C11_Witness ==
    \E i \in DOMAIN invs :
        /\ invs[i].op = "getLabels"
        /\ invs[i].listed = "failed"
        /\ invs[i].pc = "rejected"
        /\ labels.items # <<>>

\* C12: the remote client is authenticated exactly once, by the constructor;
\* no step of any operation, failing or not, authenticates again.
C12_AuthenticatedOnce ==
    /\ [](authCount = 1)
    /\ [][authCount' = authCount]_vars

\* A second operation was called and an operation has been rejected.
C12_Witness ==
    /\ authCount = 1
    /\ ncalls >= 2
    /\ \E i \in DOMAIN invs : invs[i].pc = "rejected"

\* C13: purgeLabels issues one list call, when it is called, and no delete
\* before that call has returned; then it has one delete chain per label of
\* the snapshot it fetched, which is what the remote held and what the
\* labels field holds; it issues no create.
C13_PurgeListsThenDeletes ==
    /\ [](\A i \in DOMAIN invs :
            invs[i].op = "purgeLabels"
                => /\ invs[i].cops = <<>>
                   /\ invs[i].listed # "ok" => invs[i].dops = <<>>
                   /\ invs[i].listed = "ok"
                        => /\ Len(invs[i].dops) = Len(labels.items)
                           /\ \A k \in 1..Len(labels.items) :
                                  /\ invs[i].dops[k].label = labels.items[k]
                                  /\ labels.items[k][1] = i)
    /\ [][\A i \in 1..MaxCalls :
            (Acts(i) /\ invs'[i].op = "purgeLabels")
                => /\ issued'.list = issued.list + (IF i \in DOMAIN invs THEN 0 ELSE 1)
                   /\ issued'.create = issued.create
                   /\ issued'.delete = issued.delete + Len(invs'[i].dops)
                        - (IF i \in DOMAIN invs THEN Len(invs[i].dops) ELSE 0)
                   /\ (i \in DOMAIN invs /\ invs'[i].listed = "ok" /\ invs[i].listed = "none")
                        => /\ Len(invs'[i].dops) = Cardinality(remote)
                           /\ {NameOf(invs'[i].dops[k].label) :
                                  k \in 1..Len(invs'[i].dops)} = remote]_vars

\* A purge of a non-empty snapshot that has resolved.
C13_Witness ==
    \E i \in DOMAIN invs :
        /\ invs[i].op = "purgeLabels"
        /\ invs[i].listed = "ok"
        /\ invs[i].dops # <<>>
        /\ invs[i].pc = "resolved"

\* C14: when its list call succeeds getLabels resolves and the labels field
\* becomes the response, one object per label the remote holds and nothing
\* of the snapshot held before, with the meta key exactly if meta was true.
C14_SnapshotStored ==
    [][\A i \in 1..MaxCalls :
          (/\ i \in DOMAIN invs /\ Acts(i)
           /\ invs[i].op = "getLabels"
           /\ invs'[i].listed = "ok")
              => /\ invs'[i].pc = "resolved"
                 /\ labels'.meta = invs[i].meta
                 /\ Len(labels'.items) = Cardinality(remote)
                 /\ Range(labels'.items) = {<<i, n>> : n \in remote}]_vars

\* A second list call has replaced a snapshot, this time keeping meta.
C14_Witness ==
    \E i \in DOMAIN invs :
        /\ invs[i].op = "getLabels" /\ invs[i].meta
        /\ invs[i].pc = "resolved"
        /\ issued.list >= 2
        /\ labels.meta
        /\ Range(labels.items) = {<<i, n>> : n \in remote}
        /\ labels.items # <<>>

\* The per-label chains that have not completed.
PendingChains ==
    UNION {{[i |-> i, kind |-> "delete", k |-> k, label |-> invs[i].dops[k].label] :
               k \in {j \in 1..Len(invs[i].dops) : invs[i].dops[j].st # "done"}}
           \cup
           {[i |-> i, kind |-> "create", k |-> k, label |-> invs[i].cops[k].label] :
               k \in {j \in 1..Len(invs[i].cops) : invs[i].cops[j].st # "done"}} :
           i \in DOMAIN invs}

C16_StatusWrittenBeforeLog ==
    Reacting =>
        status[QueueLabel] \in
            (IF queue.kind = "create" THEN {"success", "duplicate", "error"}
             ELSE {"success", "error"})

\* C17: createdLabels and deletedLabels only grow at the end: after every
\* step each list starts with what it held before the step.
C17_AuditAppendOnly ==
    [][/\ Len(createdLabels) <= Len(createdLabels')
       /\ SubSeq(createdLabels', 1, Len(createdLabels)) = createdLabels
       /\ Len(deletedLabels) <= Len(deletedLabels')
       /\ SubSeq(deletedLabels', 1, Len(deletedLabels)) = deletedLabels]_vars

\* The same label is logged twice, after two creates of it.
C17_Witness ==
    \E j \in 1..Len(createdLabels), k \in 1..Len(createdLabels) :
        j < k /\ createdLabels[j] = createdLabels[k]

\* C18: when the list call of purgeLabels or of importLabels with purge
\* fails, the operation rejects without any delete or create chain, and the
\* step changes neither the audit lists, the snapshot, a status nor the
\* remote.
C18_ListFailureAborts ==
    /\ [](\A i \in DOMAIN invs :
            (invs[i].op \in {"purgeLabels", "importLabels"} /\ invs[i].listed = "failed")
                => /\ invs[i].pc = "rejected"
                   /\ invs[i].dops = <<>>
                   /\ invs[i].cops = <<>>)
    /\ [][\A i \in 1..MaxCalls :
            (/\ i \in DOMAIN invs /\ Acts(i)
             /\ invs[i].op \in {"purgeLabels", "importLabels"}
             /\ invs'[i].listed = "failed")
                => /\ UNCHANGED <<createdLabels, deletedLabels, labels, status, remote>>
                   /\ issued' = issued]_vars

\* An import of a non-empty list rejected by its purge's failed list call,
\* after an earlier operation logged a label.
C18_Witness ==
    \E i \in DOMAIN invs :
        /\ invs[i].op = "importLabels"
        /\ invs[i].args # <<>>
        /\ invs[i].listed = "failed"
        /\ invs[i].pc = "rejected"
        /\ deletedLabels # <<>>

\* C19: if every remote call is answered, every importLabels call settles;
\* when it has resolved every entry of desired has a completed create chain,
\* a status among success, duplicate, error and a place in createdLabels;
\* it issues its creates once, one per entry, and none again.
C19_ImportSettles ==
    /\ \A i \in 1..MaxCalls :
          (i \in DOMAIN invs /\ invs[i].op = "importLabels")
              ~> (i \notin DOMAIN invs \/ Settled(invs[i]))
    /\ [](\A i \in DOMAIN invs :
            invs[i].op = "importLabels"
                => /\ invs[i].cops # <<>> => Len(invs[i].cops) = Len(invs[i].args)
                   /\ invs[i].pc = "resolved"
                        => /\ Len(invs[i].cops) = Len(invs[i].args)
                           /\ \A k \in 1..Len(invs[i].args) :
                                  /\ invs[i].cops[k].label = invs[i].args[k]
                                  /\ invs[i].cops[k].st = "done"
                                  /\ status[invs[i].args[k]] \in {"success", "duplicate", "error"}
                                  /\ invs[i].args[k] \in Range(createdLabels))
    /\ [][\A i \in 1..MaxCalls :
            (Acts(i) /\ invs'[i].op = "importLabels")
                => issued'.create = issued.create + Len(invs'[i].cops)
                     - (IF i \in DOMAIN invs THEN Len(invs[i].cops) ELSE 0)]_vars

\* An import that purged has resolved with a duplicate among its labels.
C19_Witness ==
    \E i \in DOMAIN invs :
        /\ invs[i].op = "importLabels" /\ invs[i].purge
        /\ invs[i].pc = "resolved"
        /\ \E k \in 1..Len(invs[i].args) : status[invs[i].args[k]] = "duplicate"

\* C20: against a faithful remote that no one else writes to, when
\* importLabels(desired, purge=true) has resolved the names the remote holds
\* are the names in desired.
C20_ImportConverges ==
    \A i \in DOMAIN invs :
        (invs[i].op = "importLabels" /\ invs[i].purge /\ invs[i].pc = "resolved")
            => remote = {NameOf(invs[i].args[k]) : k \in 1..Len(invs[i].args)}

\* An import that purged a label and created another has resolved.
C20_Witness ==
    \E i \in DOMAIN invs :
        /\ invs[i].op = "importLabels" /\ invs[i].purge
        /\ invs[i].pc = "resolved"
        /\ invs[i].dops # <<>>
        /\ invs[i].args # <<>>
        /\ remote # InitialRemote

====
